---- MODULE Spec2Model ----
(***************************************************************************)
(* State-machine model of dashboard_interactif_final.py: the script loads  *)
(* three CSV tables, checks their columns, prepares them (date parsing,    *)
(* weekday names, Web-Mercator reprojection) and derives the daily series, *)
(* the per-category totals, the weekday x category heat map and the        *)
(* sentiment histogram.  One action per statement of the script.           *)
(*                                                                         *)
(* Units: a timestamp is a number of hours counted from a Monday 00:00;    *)
(* a sentiment score is counted in 1/100000 (0.7 is 70000); latitudes and  *)
(* longitudes are whole degrees; projected coordinates are metres.         *)
(***************************************************************************)
EXTENDS Integers, Sequences, FiniteSets, TLC

\* ------------------------------------------------------------------ bounds
MaxRows == 2
MaxFeedback == 2
MaxDay == 1

\* ------------------------------------------------------------ cell values
\* A floating-point cell: a number, NaN (pandas' missing value) or infinity.
Num(n) == [kind |-> "num", v |-> n]
NaN == [kind |-> "nan", v |-> 0]
Inf == [kind |-> "inf", v |-> 0]
\* A CSV cell that is text where a number or a date is expected.
Text == [kind |-> "text", v |-> 0]
\* A CSV date cell: calendar day and hour of day.
DateCell(d, h) == [kind |-> "date", day |-> d, hour |-> h]
BadDate == [kind |-> "text", day |-> 0, hour |-> 0]

\* IEEE-754 addition on cells: NaN absorbs.
FAdd(a, b) ==
  IF a.kind = "nan" \/ b.kind = "nan" THEN NaN
  ELSE IF a.kind = "inf" \/ b.kind = "inf" THEN Inf
  ELSE Num(a.v + b.v)

HoursPerDay == 24
DaysPerWeek == 7

\* ------------------------------------------------------- sequence helpers
SeqsUpTo(S, n) == UNION {[1..k -> S] : k \in 0..n}

Range(s) == {s[i] : i \in DOMAIN s}

RECURSIVE SumSeq(_)
SumSeq(s) == IF s = <<>> THEN 0 ELSE s[1] + SumSeq(Tail(s))

RECURSIVE FSumSeq(_)
FSumSeq(s) == IF s = <<>> THEN Num(0) ELSE FAdd(s[1], FSumSeq(Tail(s)))

\* The elements of a finite set of integers in ascending order.
RECURSIVE SortInts(_)
SortInts(S) ==
  IF S = {} THEN <<>>
  ELSE LET m == CHOOSE x \in S : \A y \in S : x <= y
       IN <<m>> \o SortInts(S \ {m})

\* The subsequence of `order` made of the labels in S (labels sorted the way
\* `order` lists them).
RECURSIVE Pick(_, _)
Pick(order, S) ==
  IF order = <<>> THEN <<>>
  ELSE (IF order[1] \in S THEN <<order[1]>> ELSE <<>>) \o Pick(Tail(order), S)

\* Lexicographic order of the category labels and of the weekday names:
\* groupby and pivot sort their keys.
CategoryAlphabet == <<"A", "B", "C">>
DayAlphabet ==
  <<"Friday", "Monday", "Saturday", "Sunday", "Thursday", "Tuesday", "Wednesday">>

\* ------------------------------------------------------ schema (l. 25-36)
required_columns_sales == {"date", "category", "sales"}
required_columns_geo == {"latitude", "longitude", "region", "sales"}
required_columns_feedback_short == {"date", "category", "rating"}
required_columns_feedback == {"date", "category", "rating", "sentiment_score"}

issubset(required, cols) == required \subseteq cols

\* ------------------------------------------------- preparation (l. 38-47)
\* pd.to_datetime on one cell: the timestamp, time of day kept.
to_datetime(cell) == cell.day * HoursPerDay + cell.hour
Parseable(cell) == cell.kind = "date"

\* The sales rows with the date column parsed (l. 39).
ParseSalesDates(rows) ==
  [i \in DOMAIN rows |->
     [date |-> to_datetime(rows[i].date),
      category |-> rows[i].category,
      sales |-> rows[i].sales]]

days_order ==
  <<"Monday", "Tuesday", "Wednesday", "Thursday", "Friday", "Saturday", "Sunday">>

\* Series.dt.day_name() on one timestamp.
day_name(ts) == days_order[((ts \div HoursPerDay) % DaysPerWeek) + 1]

\* The sales rows with the day_of_week column added (l. 40).
AddDayOfWeek(rows) ==
  [i \in DOMAIN rows |->
     [date |-> rows[i].date,
      category |-> rows[i].category,
      sales |-> rows[i].sales,
      day_of_week |-> day_name(rows[i].date)]]

\* Spherical Web Mercator (EPSG:4326 -> EPSG:3857), metres, tabulated on the
\* latitudes and longitudes of the model; R = 6378137.
MercatorX(lon) ==
  CASE lon = 0 -> 0
    [] lon = 90 -> 10018754
    [] lon = 180 -> 20037508
    [] lon = -180 -> -20037508

MercatorYTable(lat) ==
  CASE lat = 0 -> 0
    [] lat = 45 -> 5621521
    [] lat = -45 -> -5621521
    [] lat = 60 -> 8399738
    [] lat = 89 -> 30240972

Pole == 90
PoleY == 242528681
Abs(x) == IF x < 0 THEN -x ELSE x

\* transformer.transform(lon, lat): the set of results a build can give.
\* Inside the poles the projection is defined; at a pole PROJ either reports
\* the point outside the projection domain (pyproj then returns inf) or
\* evaluates asinh(tan(phi)) in floating point (a huge finite y); beyond a
\* pole the latitude is invalid and pyproj returns inf.
TransformResults(lon, lat) ==
  IF Abs(lat) < Pole
    THEN {[x |-> Num(MercatorX(lon)), y |-> Num(MercatorYTable(lat))]}
  ELSE IF Abs(lat) = Pole
    THEN {[x |-> Num(MercatorX(lon)), y |-> Inf],
          [x |-> Num(MercatorX(lon)),
           y |-> Num(IF lat < 0 THEN -PoleY ELSE PoleY)]}
  ELSE {[x |-> Inf, y |-> Inf]}

\* --------------------------------------------------- aggregation (pandas)
\* Sum of the sales of the rows at the indices I.
RECURSIVE SumAt(_, _)
SumAt(rows, I) ==
  IF I = {} THEN 0
  ELSE LET i == CHOOSE j \in I : TRUE
       IN rows[i].sales + SumAt(rows, I \ {i})

\* groupby('date')['sales'].sum().reset_index(): one row per distinct value
\* of the date column, keys ascending.
GroupByDate(rows) ==
  LET keys == SortInts({rows[i].date : i \in DOMAIN rows})
  IN [k \in 1..Len(keys) |->
        [date |-> keys[k],
         sales |-> SumAt(rows, {i \in DOMAIN rows : rows[i].date = keys[k]})]]

\* groupby('category')['sales'].sum().reset_index(): keys sorted.
GroupByCategory(rows) ==
  LET keys == Pick(CategoryAlphabet, {rows[i].category : i \in DOMAIN rows})
  IN [k \in 1..Len(keys) |->
        [category |-> keys[k],
         sales |-> SumAt(rows, {i \in DOMAIN rows : rows[i].category = keys[k]})]]

\* groupby(['day_of_week', 'category'])['sales'].sum().reset_index(): one
\* row per observed pair, sorted by day name, then by category.
RECURSIVE GroupPairs(_, _, _)
GroupPairs(rows, days, cats) ==
  IF days = <<>> THEN <<>>
  ELSE LET d == days[1]
           here == Pick(cats, {rows[i].category :
                                 i \in {j \in DOMAIN rows : rows[j].day_of_week = d}})
       IN [k \in 1..Len(here) |->
             [day_of_week |-> d, category |-> here[k],
              sales |-> SumAt(rows, {i \in DOMAIN rows :
                                       /\ rows[i].day_of_week = d
                                       /\ rows[i].category = here[k]})]]
          \o GroupPairs(rows, Tail(days), cats)

GroupByDayCategory(rows) ==
  GroupPairs(rows,
             Pick(DayAlphabet, {rows[i].day_of_week : i \in DOMAIN rows}),
             CategoryAlphabet)

\* A data frame of the heat map: row labels, column labels, and a cell for
\* every (row, column) pair.
\* DataFrame.pivot(index='day_of_week', columns='category', values='sales'):
\* the observed days and categories, sorted; a pair without a row is NaN.
pivot(hd) ==
  LET idx == Pick(DayAlphabet, {hd[i].day_of_week : i \in DOMAIN hd})
      cols == Pick(CategoryAlphabet, {hd[i].category : i \in DOMAIN hd})
  IN [index |-> idx,
      columns |-> cols,
      values |-> [p \in Range(idx) \X Range(cols) |->
                    IF \E i \in DOMAIN hd :
                         hd[i].day_of_week = p[1] /\ hd[i].category = p[2]
                      THEN Num((CHOOSE r \in Range(hd) :
                                  r.day_of_week = p[1] /\ r.category = p[2]).sales)
                      ELSE NaN]]

\* DataFrame.fillna(0): every NaN cell present in the frame becomes 0.
fillna(df, fill) ==
  [df EXCEPT !.values =
     [p \in DOMAIN df.values |->
        IF df.values[p].kind = "nan" THEN Num(fill) ELSE df.values[p]]]

\* The reindex forgotten: the frame as pivot left it.
reindex_skipped(df, labels) == df

\* DataFrame.reindex(labels): the rows in the order of labels; a label that
\* is not a row of the frame gives a row of NaN.
reindex(df, labels) ==
  [index |-> labels,
   columns |-> df.columns,
   values |-> [p \in Range(labels) \X Range(df.columns) |->
                 IF p[1] \in Range(df.index) THEN df.values[p] ELSE NaN]]

\* reset_index().melt(id_vars='day_of_week', var_name='category',
\* value_name='sales'): column by column, the rows in index order.
RECURSIVE melt_columns(_, _)
melt_columns(df, cols) ==
  IF cols = <<>> THEN <<>>
  ELSE [k \in 1..Len(df.index) |->
          [day_of_week |-> df.index[k], category |-> cols[1],
           sales |-> df.values[<<df.index[k], cols[1]>>]]]
       \o melt_columns(df, Tail(cols))

melt(df) == melt_columns(df, df.columns)

\* ---------------------------------------------------- sentiment (l. 136-146)
PositiveAbove == 70000
NeutralFrom == 30000

categorize_sentiment_inclusive(score) ==
  IF score >= PositiveAbove THEN "Positive"
  ELSE IF NeutralFrom <= score /\ score <= PositiveAbove THEN "Neutral"
  ELSE "Negative"

categorize_sentiment(score) ==
  IF score > PositiveAbove THEN "Positive"
  ELSE IF NeutralFrom <= score /\ score <= PositiveAbove THEN "Neutral"
  ELSE "Negative"

Count(labels, l) == Cardinality({i \in DOMAIN labels : labels[i] = l})
FirstAt(labels, l) ==
  IF l \in Range(labels)
    THEN CHOOSE i \in DOMAIN labels :
           labels[i] = l /\ \A j \in 1..(i - 1) : labels[j] # l
    ELSE Len(labels) + 1

\* Series.value_counts().reset_index(): one row per label that occurs, the
\* most frequent first, equal counts in order of first appearance.
RECURSIVE CountsOf(_, _)
CountsOf(labels, L) ==
  IF L = {} THEN <<>>
  ELSE LET top == CHOOSE l \in L : \A m \in L :
                    \/ Count(labels, l) > Count(labels, m)
                    \/ /\ Count(labels, l) = Count(labels, m)
                       /\ FirstAt(labels, l) <= FirstAt(labels, m)
       IN <<[Sentiment |-> top, Count |-> Count(labels, top)]>>
          \o CountsOf(labels, L \ {top})

SentimentLabels == {"Positive", "Neutral", "Negative"}

\* A histogram with an entry for every label, occurring or not.
value_counts_zero_filled(labels) ==
  CountsOf(labels, SentimentLabels)

value_counts(labels) == CountsOf(labels, Range(labels))

\* ------------------------------------------------------------------ state
VARIABLES
  pc,                \* the statement the script is about to execute
  error,             \* the exception that ended the run, "" while none
  executed,          \* the statements executed so far
  produced,          \* the derived outputs that exist
  csv_sales,         \* sales_data.csv: [columns, rows]
  csv_geo,           \* geographic_data.csv
  csv_feedback,      \* customer_feedback.csv
  sales_data,        \* the three data frames, changed in place
  geo_data,
  customer_feedback,
  transform_args,    \* the (longitude, latitude) pairs handed to transform
  daily_sales,
  category_sales,
  heatmap_data,
  heatmap_pivot,
  heatmap_source,
  sentiment_counts

vars == <<pc, error, executed, produced, csv_sales, csv_geo, csv_feedback,
          sales_data, geo_data, customer_feedback, transform_args,
          daily_sales, category_sales, heatmap_data, heatmap_pivot,
          heatmap_source, sentiment_counts>>

files == <<csv_sales, csv_geo, csv_feedback>>
sales_outputs == <<daily_sales, category_sales, heatmap_data, heatmap_pivot,
                   heatmap_source>>

EmptyFrame == [columns |-> {}, rows |-> <<>>]
EmptyPivot == [index |-> <<>>, columns |-> <<>>, values |-> <<>>]

\* A table without the column c: the header and every row lose it.
WithoutColumn(file, c) ==
  [columns |-> file.columns \ {c},
   rows |-> [i \in DOMAIN file.rows |->
               [k \in file.columns \ {c} |-> file.rows[i][k]]]]

\* The script starts with the three files on disk and nothing computed.
InitWith(SalesFiles, GeoFiles, FeedbackFiles) ==
  /\ pc = "load"
  /\ error = ""
  /\ executed = {}
  /\ produced = {}
  /\ csv_sales \in SalesFiles
  /\ csv_geo \in GeoFiles
  /\ csv_feedback \in FeedbackFiles
  /\ sales_data = EmptyFrame
  /\ geo_data = EmptyFrame
  /\ customer_feedback = EmptyFrame
  /\ transform_args = <<>>
  /\ daily_sales = <<>>
  /\ category_sales = <<>>
  /\ heatmap_data = <<>>
  /\ heatmap_pivot = EmptyPivot
  /\ heatmap_source = <<>>
  /\ sentiment_counts = <<>>

\* A statement raises: the run ends there.
Raise(stmt, exc) ==
  /\ pc' = "aborted"
  /\ error' = exc
  /\ executed' = executed \cup {stmt}

\* A statement completes and control moves on.
Goto(stmt, next) ==
  /\ pc' = next
  /\ error' = error
  /\ executed' = executed \cup {stmt}

\* ------------------------------------------------------------ l. 21-23
Load ==
  /\ pc = "load"
  /\ sales_data' = csv_sales
  /\ geo_data' = csv_geo
  /\ customer_feedback' = csv_feedback
  /\ Goto("load", "check_sales")
  /\ UNCHANGED <<files, produced, transform_args, sales_outputs, sentiment_counts>>

\* ------------------------------------------------------------ l. 26-36
CheckSales ==
  /\ pc = "check_sales"
  /\ IF issubset(required_columns_sales, sales_data.columns)
       THEN Goto("check_sales", "check_geo")
       ELSE Raise("check_sales", "ValueError")
  /\ UNCHANGED <<files, produced, sales_data, geo_data, customer_feedback,
                 transform_args, sales_outputs, sentiment_counts>>

CheckGeo ==
  /\ pc = "check_geo"
  /\ IF issubset(required_columns_geo, geo_data.columns)
       THEN Goto("check_geo", "check_feedback")
       ELSE Raise("check_geo", "ValueError")
  /\ UNCHANGED <<files, produced, sales_data, geo_data, customer_feedback,
                 transform_args, sales_outputs, sentiment_counts>>

CheckFeedback ==
  /\ pc = "check_feedback"
  /\ IF issubset(required_columns_feedback, customer_feedback.columns)
       THEN Goto("check_feedback", "parse_sales_date")
       ELSE Raise("check_feedback", "ValueError")
  /\ UNCHANGED <<files, produced, sales_data, geo_data, customer_feedback,
                 transform_args, sales_outputs, sentiment_counts>>

\* ------------------------------------------------------------ l. 39
\* sales_data['date'] = pd.to_datetime(sales_data['date'])
ParseSalesDate ==
  /\ pc = "parse_sales_date"
  /\ IF \A i \in DOMAIN sales_data.rows : Parseable(sales_data.rows[i].date)
       THEN /\ sales_data' =
                 [sales_data EXCEPT !.rows = ParseSalesDates(sales_data.rows)]
            /\ Goto("parse_sales_date", "day_of_week")
       ELSE /\ Raise("parse_sales_date", "ParserError")
            /\ UNCHANGED sales_data
  /\ UNCHANGED <<files, produced, geo_data, customer_feedback, transform_args,
                 sales_outputs, sentiment_counts>>

\* ------------------------------------------------------------ l. 40
\* sales_data['day_of_week'] = sales_data['date'].dt.day_name()
DayOfWeek ==
  /\ pc = "day_of_week"
  /\ sales_data' =
       [columns |-> sales_data.columns \cup {"day_of_week"},
        rows |-> AddDayOfWeek(sales_data.rows)]
  /\ Goto("day_of_week", "parse_feedback_date")
  /\ UNCHANGED <<files, produced, geo_data, customer_feedback, transform_args,
                 sales_outputs, sentiment_counts>>

\* ------------------------------------------------------------ l. 41
\* customer_feedback['date'] = pd.to_datetime(customer_feedback['date'])
ParseFeedbackDate(next) ==
  /\ pc = "parse_feedback_date"
  /\ IF \A i \in DOMAIN customer_feedback.rows :
          Parseable(customer_feedback.rows[i].date)
       THEN /\ customer_feedback' =
                 [customer_feedback EXCEPT !.rows =
                    [i \in DOMAIN customer_feedback.rows |->
                       [customer_feedback.rows[i] EXCEPT
                          !.date = to_datetime(customer_feedback.rows[i].date)]]]
            /\ Goto("parse_feedback_date", next)
       ELSE /\ Raise("parse_feedback_date", "ParserError")
            /\ UNCHANGED customer_feedback
  /\ UNCHANGED <<files, produced, sales_data, geo_data, transform_args,
                 sales_outputs, sentiment_counts>>

\* ------------------------------------------------------------ l. 43-47
\* geo_data['mercator_x'], geo_data['mercator_y'] = zip(*geo_data.apply(
\*     lambda row: transformer.transform(row['longitude'], row['latitude']), axis=1))
\* Each row's longitude and latitude go to transform as they are.  A cell
\* that is no number makes transform raise; unpacking the zip of an empty
\* frame into two names raises as well.
Numeric(row) == row.latitude.kind = "num" /\ row.longitude.kind = "num"

TransformArgs(rows) ==
  [i \in DOMAIN rows |-> [lon |-> rows[i].longitude.v, lat |-> rows[i].latitude.v]]

ReprojectEffect(next) ==
  LET rows == geo_data.rows
      bad == {i \in DOMAIN rows : ~Numeric(rows[i])}
  IN /\ IF rows = <<>>
          THEN /\ Raise("reproject", "ValueError")
               /\ UNCHANGED <<geo_data, transform_args, produced>>
        ELSE IF bad # {}
          THEN /\ Raise("reproject", "TypeError")
               /\ transform_args' =
                    TransformArgs(SubSeq(rows, 1,
                                         (CHOOSE i \in bad : \A j \in bad : i <= j) - 1))
               /\ UNCHANGED <<geo_data, produced>>
        ELSE /\ \E res \in [DOMAIN rows ->
                              UNION {TransformResults(rows[i].longitude.v,
                                                      rows[i].latitude.v) :
                                       i \in DOMAIN rows}] :
                  /\ \A i \in DOMAIN rows :
                       res[i] \in TransformResults(rows[i].longitude.v,
                                                   rows[i].latitude.v)
                  /\ geo_data' =
                       [columns |-> geo_data.columns \cup {"mercator_x", "mercator_y"},
                        rows |-> [i \in DOMAIN rows |->
                                    [latitude |-> rows[i].latitude,
                                     longitude |-> rows[i].longitude,
                                     region |-> rows[i].region,
                                     sales |-> rows[i].sales,
                                     mercator_x |-> res[i].x,
                                     mercator_y |-> res[i].y]]]
             /\ transform_args' = TransformArgs(rows)
             /\ produced' = produced \cup {"projected"}
             /\ Goto("reproject", next)
     /\ UNCHANGED <<files, sales_data, customer_feedback, sales_outputs,
                    sentiment_counts>>

\* The totals also written back into the frame's own sales column
\* (sales_data['sales'] = ...groupby('date')['sales'].transform('sum')).
DailyEffectInPlace(next) ==
  /\ daily_sales' = GroupByDate(sales_data.rows)
  /\ sales_data' =
       [sales_data EXCEPT !.rows =
          [i \in DOMAIN sales_data.rows |->
             [sales_data.rows[i] EXCEPT !.sales =
                SumAt(sales_data.rows,
                      {j \in DOMAIN sales_data.rows :
                         sales_data.rows[j].date = sales_data.rows[i].date})]]]
  /\ produced' = produced \cup {"daily_sales"}
  /\ Goto("daily", next)
  /\ UNCHANGED <<files, geo_data, customer_feedback, transform_args,
                 category_sales, heatmap_data, heatmap_pivot, heatmap_source,
                 sentiment_counts>>

\* ------------------------------------------------------------ l. 58
\* daily_sales = sales_data.groupby('date')['sales'].sum().reset_index()
DailyEffect(next) ==
  /\ daily_sales' = GroupByDate(sales_data.rows)
  /\ produced' = produced \cup {"daily_sales"}
  /\ Goto("daily", next)
  /\ UNCHANGED <<files, sales_data, geo_data, customer_feedback, transform_args,
                 category_sales, heatmap_data, heatmap_pivot, heatmap_source,
                 sentiment_counts>>

\* ------------------------------------------------------------ l. 73
\* category_sales = sales_data.groupby('category')['sales'].sum().reset_index()
CategoryEffect(next) ==
  /\ category_sales' = GroupByCategory(sales_data.rows)
  /\ produced' = produced \cup {"category_sales"}
  /\ Goto("category", next)
  /\ UNCHANGED <<files, sales_data, geo_data, customer_feedback, transform_args,
                 daily_sales, heatmap_data, heatmap_pivot, heatmap_source,
                 sentiment_counts>>

\* ------------------------------------------------------------ l. 89
HeatmapGroupEffect(next) ==
  /\ heatmap_data' = GroupByDayCategory(sales_data.rows)
  /\ Goto("heatmap_group", next)
  /\ UNCHANGED <<files, produced, sales_data, geo_data, customer_feedback,
                 transform_args, daily_sales, category_sales, heatmap_pivot,
                 heatmap_source, sentiment_counts>>

\* ------------------------------------------------------------ l. 90
\* heatmap_pivot = heatmap_data.pivot(...).fillna(0)
HeatmapPivotEffect(next) ==
  /\ heatmap_pivot' = fillna(pivot(heatmap_data), 0)
  /\ Goto("heatmap_pivot", next)
  /\ UNCHANGED <<files, produced, sales_data, geo_data, customer_feedback,
                 transform_args, daily_sales, category_sales, heatmap_data,
                 heatmap_source, sentiment_counts>>

\* ------------------------------------------------------------ l. 92-93
\* heatmap_pivot = heatmap_pivot.reindex(days_order)
HeatmapReindexEffect(next) ==
  /\ heatmap_pivot' = reindex(heatmap_pivot, days_order)
  /\ Goto("heatmap_reindex", next)
  /\ UNCHANGED <<files, produced, sales_data, geo_data, customer_feedback,
                 transform_args, daily_sales, category_sales, heatmap_data,
                 heatmap_source, sentiment_counts>>

\* ------------------------------------------------------------ l. 95-97
HeatmapMeltEffect(next) ==
  /\ heatmap_source' = melt(heatmap_pivot)
  /\ produced' = produced \cup {"heatmap"}
  /\ Goto("heatmap_melt", next)
  /\ UNCHANGED <<files, sales_data, geo_data, customer_feedback, transform_args,
                 daily_sales, category_sales, heatmap_data, heatmap_pivot,
                 sentiment_counts>>

\* ------------------------------------------------------------ l. 144
\* customer_feedback['Sentiment'] =
\*     customer_feedback['sentiment_score'].apply(categorize_sentiment)
\* Comparing a text cell with 0.7 raises TypeError.
ApplySentimentEffect(next) ==
  LET rows == customer_feedback.rows
  IN /\ IF "sentiment_score" \notin customer_feedback.columns
          THEN /\ Raise("apply_sentiment", "KeyError")
               /\ UNCHANGED customer_feedback
        ELSE IF \E i \in DOMAIN rows : rows[i].sentiment_score.kind # "num"
          THEN /\ Raise("apply_sentiment", "TypeError")
               /\ UNCHANGED customer_feedback
        ELSE /\ customer_feedback' =
                  [columns |-> customer_feedback.columns \cup {"Sentiment"},
                   rows |-> [i \in DOMAIN rows |->
                               [date |-> rows[i].date,
                                category |-> rows[i].category,
                                rating |-> rows[i].rating,
                                sentiment_score |-> rows[i].sentiment_score,
                                Sentiment |->
                                  categorize_sentiment(rows[i].sentiment_score.v)]]]
             /\ Goto("apply_sentiment", next)
     /\ UNCHANGED <<files, produced, sales_data, geo_data, transform_args,
                    sales_outputs, sentiment_counts>>

\* ------------------------------------------------------------ l. 145-146
\* sentiment_counts = customer_feedback['Sentiment'].value_counts().reset_index()
Sentiments(fb) == [i \in DOMAIN fb.rows |-> fb.rows[i].Sentiment]

SentimentCountsEffect(next) ==
  /\ sentiment_counts' = value_counts(Sentiments(customer_feedback))
  /\ produced' = produced \cup {"sentiment_counts"}
  /\ Goto("sentiment_counts", next)
  /\ UNCHANGED <<files, sales_data, geo_data, customer_feedback, transform_args,
                 sales_outputs>>

\* ------------------------------------------- the script, top to bottom
Reproject == pc = "reproject" /\ ReprojectEffect("daily")
Daily == pc = "daily" /\ DailyEffect("category")
Category == pc = "category" /\ CategoryEffect("heatmap_group")
HeatmapGroup == pc = "heatmap_group" /\ HeatmapGroupEffect("heatmap_pivot")
HeatmapPivot == pc = "heatmap_pivot" /\ HeatmapPivotEffect("heatmap_reindex")
HeatmapReindex == pc = "heatmap_reindex" /\ HeatmapReindexEffect("heatmap_melt")
HeatmapMelt == pc = "heatmap_melt" /\ HeatmapMeltEffect("apply_sentiment")
ApplySentiment == pc = "apply_sentiment" /\ ApplySentimentEffect("sentiment_counts")
SentimentCounts == pc = "sentiment_counts" /\ SentimentCountsEffect("done")

Next ==
  \/ Load
  \/ CheckSales
  \/ CheckGeo
  \/ CheckFeedback
  \/ ParseSalesDate
  \/ DayOfWeek
  \/ ParseFeedbackDate("reproject")
  \/ Reproject
  \/ Daily
  \/ Category
  \/ HeatmapGroup
  \/ HeatmapPivot
  \/ HeatmapReindex
  \/ HeatmapMelt
  \/ ApplySentiment
  \/ SentimentCounts

\* ---------------------------------------- the transforms in any order
\* The five transforms started in any order and interleaved statement by
\* statement, each keeping the order of its own statements.
TransformStmts ==
  {"reproject", "daily", "category", "heatmap_group", "heatmap_pivot",
   "heatmap_reindex", "heatmap_melt", "apply_sentiment", "sentiment_counts"}

Ready(stmt, before) ==
  /\ pc = "transforms"
  /\ stmt \notin executed
  /\ before \subseteq executed

After(stmt) ==
  IF TransformStmts \subseteq executed \cup {stmt} THEN "done" ELSE "transforms"

AnyReproject == Ready("reproject", {}) /\ ReprojectEffect(After("reproject"))
AnyDaily == Ready("daily", {}) /\ DailyEffect(After("daily"))
AnyCategory == Ready("category", {}) /\ CategoryEffect(After("category"))
AnyHeatmapGroup ==
  Ready("heatmap_group", {}) /\ HeatmapGroupEffect(After("heatmap_group"))
AnyHeatmapPivot ==
  /\ Ready("heatmap_pivot", {"heatmap_group"})
  /\ HeatmapPivotEffect(After("heatmap_pivot"))
AnyHeatmapReindex ==
  /\ Ready("heatmap_reindex", {"heatmap_pivot"})
  /\ HeatmapReindexEffect(After("heatmap_reindex"))
AnyHeatmapMelt ==
  /\ Ready("heatmap_melt", {"heatmap_reindex"})
  /\ HeatmapMeltEffect(After("heatmap_melt"))
AnyApplySentiment ==
  Ready("apply_sentiment", {}) /\ ApplySentimentEffect(After("apply_sentiment"))
AnySentimentCounts ==
  /\ Ready("sentiment_counts", {"apply_sentiment"})
  /\ SentimentCountsEffect(After("sentiment_counts"))

NextAnyOrder ==
  \/ Load
  \/ CheckSales
  \/ CheckGeo
  \/ CheckFeedback
  \/ ParseSalesDate
  \/ DayOfWeek
  \/ ParseFeedbackDate("transforms")
  \/ AnyReproject
  \/ AnyDaily
  \/ AnyCategory
  \/ AnyHeatmapGroup
  \/ AnyHeatmapPivot
  \/ AnyHeatmapReindex
  \/ AnyHeatmapMelt
  \/ AnyApplySentiment
  \/ AnySentimentCounts

\* ----------------------------------------------------------------- inputs
Categories == {"A", "B"}
Hours == {0, 12}
SaleValues == {1, 2}

SalesRow(d, h, c, v) == [date |-> DateCell(d, h), category |-> c, sales |-> v]
BadSalesRow == [date |-> BadDate, category |-> "A", sales |-> 1]
GeoRow(lat, lon) ==
  [latitude |-> lat, longitude |-> lon, region |-> "Nord", sales |-> 1]
FeedbackRow(date, score) ==
  [date |-> date, category |-> "A", rating |-> 4, sentiment_score |-> score]

SalesFile(rows) == [columns |-> {"date", "category", "sales"}, rows |-> rows]
GeoFile(rows) ==
  [columns |-> {"latitude", "longitude", "region", "sales"}, rows |-> rows]
FeedbackFile(rows) ==
  [columns |-> {"date", "category", "rating", "sentiment_score"}, rows |-> rows]

OneSale == <<SalesRow(0, 0, "A", 1)>>
OnePoint == <<GeoRow(Num(45), Num(0))>>
OneOpinion == <<FeedbackRow(DateCell(0, 0), Num(50000))>>

\* All sales tables of at most MaxRows rows.
AllSalesRows ==
  {SalesRow(d, h, c, v) : d \in 0..MaxDay, h \in Hours, c \in Categories,
                          v \in SaleValues}
AllSalesFiles == {SalesFile(r) : r \in SeqsUpTo(AllSalesRows, MaxRows)}

\* All feedback tables of at most MaxFeedback rows, and the table of the
\* scores 0.1, 0.5, 0.9, 0.7, 0.3.
Scores == {-50000, 10000, 29999, 30000, 50000, 70000, 70001, 90000, 150000}
ScenarioScores == <<10000, 50000, 90000, 70000, 30000>>
AllFeedbackRows == {FeedbackRow(DateCell(0, 0), Num(x)) : x \in Scores}
AllFeedbackFiles ==
  {FeedbackFile(r) : r \in SeqsUpTo(AllFeedbackRows, MaxFeedback)}
  \cup {FeedbackFile([i \in DOMAIN ScenarioScores |->
                        FeedbackRow(DateCell(0, 0), Num(ScenarioScores[i]))])}

\* A few tables of each kind, valid and not, and each table with one of its
\* required columns missing.
SomeSalesRows ==
  {<<>>, OneSale, <<BadSalesRow>>,
   <<SalesRow(0, 0, "A", 1), SalesRow(1, 12, "B", 2)>>}
SomeGeoRows ==
  {<<>>, OnePoint, <<GeoRow(Num(89), Num(180)), GeoRow(Num(90), Num(0))>>,
   <<GeoRow(Num(-90), Num(90))>>, <<GeoRow(Num(95), Num(0))>>,
   <<GeoRow(Num(0), Num(0)), GeoRow(Text, Num(0))>>}
SomeFeedbackRows ==
  {<<>>, OneOpinion, <<FeedbackRow(DateCell(0, 0), Text)>>,
   <<FeedbackRow(BadDate, Num(50000))>>,
   <<FeedbackRow(DateCell(1, 12), Num(90000)), FeedbackRow(DateCell(0, 0), Num(10000))>>}

SomeSalesFiles ==
  {SalesFile(r) : r \in SomeSalesRows}
  \cup {WithoutColumn(SalesFile(OneSale), c) : c \in SalesFile(OneSale).columns}
SomeGeoFiles ==
  {GeoFile(r) : r \in SomeGeoRows}
  \cup {WithoutColumn(GeoFile(OnePoint), c) : c \in GeoFile(OnePoint).columns}
SomeFeedbackFiles ==
  {FeedbackFile(r) : r \in SomeFeedbackRows}
  \cup {WithoutColumn(FeedbackFile(OneOpinion), c) : c \in FeedbackFile(OneOpinion).columns}

\* Valid tables only.
ValidSalesFiles ==
  {SalesFile(r) : r \in {<<>>, OneSale,
                         <<SalesRow(0, 0, "A", 1), SalesRow(1, 12, "B", 2),
                           SalesRow(0, 0, "B", 2)>>}}
ValidGeoFiles ==
  {GeoFile(r) : r \in {OnePoint, <<GeoRow(Num(89), Num(180)), GeoRow(Num(0), Num(0))>>}}
ValidFeedbackFiles ==
  {FeedbackFile(r) : r \in {<<>>, OneOpinion,
                            <<FeedbackRow(DateCell(1, 12), Num(90000)),
                              FeedbackRow(DateCell(0, 0), Num(10000))>>}}

\* ---------------------------------------------------------- specifications
Init == InitWith(SomeSalesFiles, SomeGeoFiles, SomeFeedbackFiles)
Spec == Init /\ [][Next]_vars

InitSales == InitWith(AllSalesFiles, {GeoFile(OnePoint)}, {FeedbackFile(OneOpinion)})
SalesSpec == InitSales /\ [][Next]_vars

InitFeedback == InitWith({SalesFile(OneSale)}, {GeoFile(OnePoint)}, AllFeedbackFiles)
FeedbackSpec == InitFeedback /\ [][Next]_vars

InitAnyOrder == InitWith(ValidSalesFiles, ValidGeoFiles, ValidFeedbackFiles)
AnyOrderSpec == InitAnyOrder /\ [][NextAnyOrder]_vars

\* ================================================================= claims
SevenDays ==
  {"Monday", "Tuesday", "Wednesday", "Thursday", "Friday", "Saturday", "Sunday"}

\* The sales records as read from the file, and what they add up to.
Records == csv_sales.rows
InputTotal == SumSeq([i \in DOMAIN Records |-> Records[i].sales])
ObservedCategories == {Records[i].category : i \in DOMAIN Records}
WeekdayOf(rec) ==
  <<"Monday", "Tuesday", "Wednesday", "Thursday", "Friday", "Saturday",
    "Sunday">>[(rec.date.day % 7) + 1]
Contributing(d, c) ==
  {i \in DOMAIN Records : WeekdayOf(Records[i]) = d /\ Records[i].category = c}

\* C1: once the Sentiment column exists, every feedback row is labelled
\* "Positive" exactly when its score is above 0.7, "Neutral" exactly when it
\* lies in [0.3, 0.7] and "Negative" exactly when it is below 0.3, whatever
\* the score (also outside [0, 1]); 0.7 and 0.3 are "Neutral", 0.70001 is
\* "Positive" and 0.29999 is "Negative".
C1_Partition ==
  "Sentiment" \in customer_feedback.columns =>
    \A i \in DOMAIN customer_feedback.rows :
      LET s == customer_feedback.rows[i].sentiment_score.v
          l == customer_feedback.rows[i].Sentiment
      IN /\ l \in {"Positive", "Neutral", "Negative"}
         /\ (l = "Positive") <=> (s > 70000)
         /\ (l = "Neutral") <=> (30000 <= s /\ s <= 70000)
         /\ (l = "Negative") <=> (s < 30000)
         /\ s = 70000 => l = "Neutral"
         /\ s = 30000 => l = "Neutral"
         /\ s = 70001 => l = "Positive"
         /\ s = 29999 => l = "Negative"

\* C1 happens: a labelled table holding the scores 0.7 and 0.29999.
C1_Witness ==
  /\ "Sentiment" \in customer_feedback.columns
  /\ \E i, j \in DOMAIN customer_feedback.rows :
       /\ customer_feedback.rows[i].sentiment_score.v = 70000
       /\ customer_feedback.rows[j].sentiment_score.v = 29999

\* C2 (as claimed): in the finished heat map every (weekday, category) cell
\* without a contributing sales record holds 0, for each of the seven
\* weekdays and each observed category, in the matrix and in its cell list.
C2_ZeroFill ==
  "heatmap" \in produced =>
    /\ \A d \in SevenDays, c \in ObservedCategories :
         Contributing(d, c) = {} =>
           /\ <<d, c>> \in DOMAIN heatmap_pivot.values
           /\ heatmap_pivot.values[<<d, c>>] = Num(0)
    /\ \A k \in DOMAIN heatmap_source :
         Contributing(heatmap_source[k].day_of_week, heatmap_source[k].category) = {}
           => heatmap_source[k].sales = Num(0)

\* C3: the finished heat map has exactly 7k cells for k observed categories,
\* one for each pair of a weekday and an observed category; the matrix rows
\* are Monday .. Sunday in that order and its columns are the observed
\* categories; without sales records it has 7 rows and no column.
C3_Completeness ==
  "heatmap" \in produced =>
    LET k == Cardinality(ObservedCategories)
    IN /\ Len(heatmap_source) = 7 * k
       /\ \A d \in SevenDays, c \in ObservedCategories :
            Cardinality({n \in DOMAIN heatmap_source :
                           /\ heatmap_source[n].day_of_week = d
                           /\ heatmap_source[n].category = c}) = 1
       /\ heatmap_pivot.index =
            <<"Monday", "Tuesday", "Wednesday", "Thursday", "Friday", "Saturday",
              "Sunday">>
       /\ Len(heatmap_pivot.columns) = k
       /\ Range(heatmap_pivot.columns) = ObservedCategories
       /\ Records = <<>> =>
            Len(heatmap_pivot.index) = 7 /\ Len(heatmap_pivot.columns) = 0

\* C3 happens: a finished heat map over two categories sold on one weekday.
C3_Witness ==
  /\ "heatmap" \in produced
  /\ Cardinality(ObservedCategories) = 2
  /\ Cardinality({WeekdayOf(Records[i]) : i \in DOMAIN Records}) = 1

\* C4 (as claimed): for a non-empty sales table, the daily totals, the
\* category totals and the heat-map cells each add up to the sum of the
\* sales of the input records.
C4_SumConservation ==
  (pc = "done" /\ Records # <<>>) =>
    /\ SumSeq([k \in DOMAIN daily_sales |-> daily_sales[k].sales]) = InputTotal
    /\ SumSeq([k \in DOMAIN category_sales |-> category_sales[k].sales]) = InputTotal
    /\ FSumSeq([k \in DOMAIN heatmap_source |-> heatmap_source[k].sales])
         = Num(InputTotal)

\* C5 (as claimed): every latitude handed to the projection lies strictly
\* inside +-90 degrees and every resulting mercator_y is a finite number.
C5_Clamped ==
  "projected" \in produced =>
    /\ \A i \in DOMAIN transform_args : Abs(transform_args[i].lat) < 90
    /\ \A i \in DOMAIN geo_data.rows : geo_data.rows[i].mercator_y.kind = "num"

\* C6 (as claimed): a run that ends in an error has produced none of the
\* five derived outputs.
C6_AllOrNothing == pc = "aborted" => produced = {}

\* C7: when a required column is missing from any of the three files, no
\* preparation or transform statement is ever executed and nothing is
\* derived: the run is still loading or checking, or has ended with the
\* ValueError of a schema check.
C7_SchemaFirst ==
  (\/ ~({"date", "category", "sales"} \subseteq csv_sales.columns)
   \/ ~({"latitude", "longitude", "region", "sales"} \subseteq csv_geo.columns)
   \/ ~({"date", "category", "rating", "sentiment_score"}
          \subseteq csv_feedback.columns))
  => /\ executed \subseteq {"load", "check_sales", "check_geo", "check_feedback"}
     /\ produced = {}
     /\ pc \in {"load", "check_sales", "check_geo", "check_feedback", "aborted"}
     /\ pc = "aborted" => error = "ValueError"
     /\ sales_data \in {EmptyFrame, csv_sales}
     /\ geo_data \in {EmptyFrame, csv_geo}
     /\ customer_feedback \in {EmptyFrame, csv_feedback}

\* C7 happens: the last table checked lacks a column and the run has ended
\* at its check, the other two tables being complete.
C7_Witness ==
  /\ pc = "aborted"
  /\ "sentiment_score" \notin csv_feedback.columns
  /\ executed = {"load", "check_sales", "check_geo", "check_feedback"}

C9_OnePointPerDay ==
  "daily_sales" \in produced =>
    LET day(k) == daily_sales[k].date \div 24
        days == {Records[i].date.day : i \in DOMAIN Records}
    IN /\ Len(daily_sales) = Cardinality(days)
       /\ {day(k) : k \in DOMAIN daily_sales} = days
       /\ \A k \in 1..(Len(daily_sales) - 1) :
            daily_sales[k].date < daily_sales[k + 1].date
       /\ \A k \in DOMAIN daily_sales :
            daily_sales[k].sales =
              SumAt(Records, {i \in DOMAIN Records : Records[i].date.day = day(k)})
       /\ Records = <<>> => daily_sales = <<>>

\* C10: with the five transforms run in any order and interleaving, (a) a
\* finished run holds the outputs the input files determine: the daily and
\* category totals and the heat map of the prepared sales table, a projection
\* of every geographic row, the histogram of the classified scores; and
\* (b) no transform statement changes the sales table, the coordinates or
\* the scores the transforms read, and each output is written by its own
\* transform only.
C10_Expected ==
  pc = "done" =>
    LET prepared == AddDayOfWeek(ParseSalesDates(csv_sales.rows))
    IN /\ daily_sales = GroupByDate(prepared)
       /\ category_sales = GroupByCategory(prepared)
       /\ heatmap_source =
            melt(reindex(fillna(pivot(GroupByDayCategory(prepared)), 0), days_order))
       /\ Len(geo_data.rows) = Len(csv_geo.rows)
       /\ \A i \in DOMAIN csv_geo.rows :
            [x |-> geo_data.rows[i].mercator_x, y |-> geo_data.rows[i].mercator_y]
              \in TransformResults(csv_geo.rows[i].longitude.v,
                                   csv_geo.rows[i].latitude.v)
       /\ sentiment_counts =
            value_counts([i \in DOMAIN csv_feedback.rows |->
                            categorize_sentiment(csv_feedback.rows[i].sentiment_score.v)])

Coordinates(g) ==
  [i \in DOMAIN g.rows |-> <<g.rows[i].longitude, g.rows[i].latitude>>]
ScoresOf(f) == [i \in DOMAIN f.rows |-> f.rows[i].sentiment_score]

C10_Frame ==
  pc = "transforms" =>
    LET now == executed' \ executed
    IN /\ sales_data' = sales_data
       /\ Coordinates(geo_data') = Coordinates(geo_data)
       /\ ScoresOf(customer_feedback') = ScoresOf(customer_feedback)
       /\ geo_data' # geo_data => now = {"reproject"}
       /\ daily_sales' # daily_sales => now = {"daily"}
       /\ category_sales' # category_sales => now = {"category"}
       /\ heatmap_data' # heatmap_data => now = {"heatmap_group"}
       /\ heatmap_pivot' # heatmap_pivot => now \subseteq {"heatmap_pivot", "heatmap_reindex"}
       /\ heatmap_source' # heatmap_source => now = {"heatmap_melt"}
       /\ customer_feedback' # customer_feedback => now = {"apply_sentiment"}
       /\ sentiment_counts' # sentiment_counts => now = {"sentiment_counts"}

C10_Independent == [](C10_Expected) /\ [][C10_Frame]_vars

\* C10 happens: the histogram and the heat map are finished before the
\* reprojection and the daily totals, the reverse of the script, on tables
\* that are not empty.
C10_Witness ==
  /\ pc = "transforms"
  /\ {"sentiment_counts", "heatmap_melt"} \subseteq executed
  /\ executed \cap {"reproject", "daily", "category"} = {}
  /\ Len(sales_data.rows) > 1
  /\ Len(customer_feedback.rows) > 1

====
